---- MODULE Spec2Model ----
(***************************************************************************)
(* Model of examples/python-flask/app.py: the POST /analyze handler.       *)
(*                                                                         *)
(* JSON values are tagged records: None, Str(s), Num(n), List(q), Obj(d).  *)
(* A JSON object (a Python dict) is a function whose DOMAIN is the set of  *)
(* keys present, so "key absent" and "key present with an empty value"     *)
(* are different inputs.  A string built by concatenation is the sequence  *)
(* of its pieces; the prompt is the sequence of its lines.  The text of a  *)
(* completion is a sequence of lexical tokens: "{", "}", ",", a piece of   *)
(* prose, or a member  "key": value  whose value holds no brace.           *)
(* Confidence numbers are counted in tenths (5 is 0.5, 15 is 1.5).         *)
(***************************************************************************)
EXTENDS Integers, Sequences, FiniteSets, TLC

VARIABLES pc, body, prompt, apiCalls, completion, response

vars == <<pc, body, prompt, apiCalls, completion, response>>

(* ------------------------------ bounds -------------------------------- *)

MaxPainPoints == 2
MaxStakeholders == 2
MaxTextLen == 5

(* ---------------------------- JSON values ----------------------------- *)

None == [t |-> "null"]
Str(x) == [t |-> "str", s |-> x]
Num(x) == [t |-> "num", n |-> x]
List(x) == [t |-> "list", q |-> x]
Obj(x) == [t |-> "obj", d |-> x]
Text(x) == [t |-> "text", k |-> x]

EmptyDict == <<>>

\* Python truthiness, as `not x` and `x or y` use it.
Truthy(x) ==
    CASE x.t = "null" -> FALSE
      [] x.t = "str"  -> x.s # ""
      [] x.t = "num"  -> x.n # 0
      [] x.t = "list" -> Len(x.q) # 0
      [] x.t = "text" -> Len(x.k) # 0
      [] x.t = "obj"  -> DOMAIN x.d # {}

\* x or y
Or(x, y) == IF Truthy(x) THEN x ELSE y

\* d.get(key)
Get(d, key) == IF key \in DOMAIN d THEN d[key] ELSE None

\* d.get(key, default)
GetD(d, key, default) == IF key \in DOMAIN d THEN d[key] ELSE default

\* The dict d with d[key] = val.
Put(d, key, val) ==
    [x \in (DOMAIN d) \cup {key} |-> IF x = key THEN val ELSE d[x]]

\* str(x) inside an f-string.
Format(x) ==
    CASE x.t = "str"  -> x.s
      [] x.t = "null" -> "None"

(* ----------------------------- validation ----------------------------- *)

NoError == ""
CheckpointRequired == "checkpoint_id is required"
DealContextRequired == "deal_context is required"

\* The two required-field checks in the order the handler makes them; NoError
\* when the request passes both.
ValidationErrorDealContextFirst(b) ==
    IF ~Truthy(Get(b, "deal_context")) /\ ~Truthy(Get(b, "dealContext"))
    THEN DealContextRequired
    ELSE IF ~Truthy(Get(b, "checkpoint_id")) /\ ~Truthy(Get(b, "checkpointId"))
         THEN CheckpointRequired
         ELSE NoError

ValidationError(b) ==
    IF ~Truthy(Get(b, "checkpoint_id")) /\ ~Truthy(Get(b, "checkpointId"))
    THEN CheckpointRequired
    ELSE IF ~Truthy(Get(b, "deal_context")) /\ ~Truthy(Get(b, "dealContext"))
         THEN DealContextRequired
         ELSE NoError

(* ------------------------- prompt construction ------------------------ *)

DefaultQuestion == "What are the top risks and recommended next steps?"

\* chr(10).join(lines) placed on a line of its own in the template: the lines
\* themselves, or one empty line when there is none.
Join(lines) == IF Len(lines) = 0 THEN << <<>> >> ELSE lines

\* '- ' + p
PainPointLine(p) == <<"- ", Format(p)>>

\* '- ' + s.get('name', '?') + ' (' + s.get('role', '?') + ')'
StakeholderLineNoDefault(st) ==
    <<"- ", Format(GetD(st.d, "name", Str(""))), " (",
      Format(GetD(st.d, "role", Str(""))), ")">>

StakeholderLine(st) ==
    <<"- ", Format(GetD(st.d, "name", Str("?"))), " (",
      Format(GetD(st.d, "role", Str("?"))), ")">>

\* ctx.get('last_interaction') or ctx.get('lastInteraction', 'N/A')
LastInteraction(ctx) ==
    Or(Get(ctx, "last_interaction"), GetD(ctx, "lastInteraction", Str("N/A")))

\* ctx.get('pain_points') or ctx.get('painPoints', [])
PainPoints(ctx) ==
    Or(Get(ctx, "pain_points"), GetD(ctx, "painPoints", List(<<>>)))

\* ctx.get('stakeholders', [])
Stakeholders(ctx) == GetD(ctx, "stakeholders", List(<<>>))

\* The f-string of the handler, line by line.
RenderPrompt(ctx, question) ==
    LET pains == PainPoints(ctx).q
        stakes == Stakeholders(ctx).q
    IN  << <<"## Deal: ", Format(GetD(ctx, "company", Str("Unknown")))>>,
           <<"Stage: ", Format(GetD(ctx, "stage", Str("Unknown")))>>,
           <<"Last Interaction: ", Format(LastInteraction(ctx))>>,
           <<>>,
           <<"Pain Points:">> >>
        \o Join([i \in 1..Len(pains) |-> PainPointLine(pains[i])])
        \o << <<>>,
              <<"Stakeholders:">> >>
        \o Join([i \in 1..Len(stakes) |-> StakeholderLine(stakes[i])])
        \o << <<>>,
              <<"History: ", Format(GetD(ctx, "history", Str("N/A")))>>,
              <<>>,
              <<"---">>,
              <<"Question: ", Format(question)>>,
              <<>>,
              <<"Analyze this deal and provide your assessment as JSON.">> >>

\* body.get("deal_context") or body.get("dealContext")
DealContext(b) == Or(Get(b, "deal_context"), Get(b, "dealContext"))

\* body.get("question", <default>)
Question(b) == GetD(b, "question", Str(DefaultQuestion))

BuildPrompt(b) == RenderPrompt(DealContext(b).d, Question(b))

(* -------------------------- output extraction ------------------------- *)

LBrace == [t |-> "lbrace"]
RBrace == [t |-> "rbrace"]
Comma == [t |-> "comma"]
Prose == [t |-> "prose"]
Member(key, val) == [t |-> "member", key |-> key, val |-> val]

NoMatch == [found |-> FALSE]

SetMin(S) == CHOOSE x \in S : \A y \in S : x <= y
SetMax(S) == CHOOSE x \in S : \A y \in S : x >= y

\* re.search(r"\{[\s\S]*\}", text): from the first "{" to the last "}" after it.
JsonMatchNonGreedy(text) ==
    LET opens == {i \in 1..Len(text) : text[i].t = "lbrace"}
    IN  IF opens = {} THEN NoMatch
        ELSE LET first == SetMin(opens)
                 closes == {i \in first + 1..Len(text) : text[i].t = "rbrace"}
             IN  IF closes = {} THEN NoMatch
                 ELSE [found |-> TRUE,
                       group |-> SubSeq(text, first, SetMin(closes))]

JsonMatch(text) ==
    LET opens == {i \in 1..Len(text) : text[i].t = "lbrace"}
    IN  IF opens = {} THEN NoMatch
        ELSE LET first == SetMin(opens)
                 closes == {i \in first + 1..Len(text) : text[i].t = "rbrace"}
             IN  IF closes = {} THEN NoMatch
                 ELSE [found |-> TRUE,
                       group |-> SubSeq(text, first, SetMax(closes))]

\* Whether json.loads accepts a string that starts with "{" and ends with "}":
\* nothing, or members separated by single commas, between the two braces.
ValidObject(str) ==
    LET inner == SubSeq(str, 2, Len(str) - 1)
    IN  \/ Len(inner) = 0
        \/ /\ Len(inner) % 2 = 1
           /\ \A i \in 1..Len(inner) :
                 IF i % 2 = 1 THEN inner[i].t = "member"
                              ELSE inner[i].t = "comma"

\* The dict json.loads builds: of a key given twice, the last value stays.
ObjectOf(str) ==
    LET inner == SubSeq(str, 2, Len(str) - 1)
        at == {i \in 1..Len(inner) : inner[i].t = "member"}
    IN  [key \in {inner[i].key : i \in at} |->
            inner[SetMax({i \in at : inner[i].key = key})].val]

\* json.loads(str): the dict, or JSONDecodeError.
JsonLoads(str) ==
    IF ValidObject(str) THEN [ok |-> TRUE, value |-> ObjectOf(str)]
                        ELSE [ok |-> FALSE]

\* The try block: the parsed object, or {} when nothing matches or
\* json.loads raises JSONDecodeError.
ExtractJson(text) ==
    LET json_match == JsonMatch(text)
    IN  IF json_match.found
        THEN LET loaded == JsonLoads(json_match.group)
             IN  IF loaded.ok THEN loaded.value ELSE EmptyDict
        ELSE EmptyDict

(* ---------------------------- normalization --------------------------- *)

ConfidenceDefault == 5
ReasoningDefault == "Unable to parse response"

\* parsed.get("nextSteps", parsed.get("next_steps", []))
NextStepsSnakeFirst(parsed) ==
    GetD(parsed, "next_steps", GetD(parsed, "nextSteps", List(<<>>)))

NextSteps(parsed) ==
    GetD(parsed, "nextSteps", GetD(parsed, "next_steps", List(<<>>)))

\* parsed.get("confidence", 0.5)
ConfidenceClamped(parsed) ==
    LET c == GetD(parsed, "confidence", Num(ConfidenceDefault))
    IN  IF c.n < 0 THEN Num(0) ELSE IF c.n > 10 THEN Num(10) ELSE c

Confidence(parsed) == GetD(parsed, "confidence", Num(ConfidenceDefault))

\* The dict handed to jsonify.
Normalize(parsed) ==
    [risks      |-> GetD(parsed, "risks", List(<<>>)),
     next_steps |-> NextSteps(parsed),
     confidence |-> Confidence(parsed),
     reasoning  |-> GetD(parsed, "reasoning", Str(ReasoningDefault))]

(* ------------------------------ handler ------------------------------- *)

NoResponse == [status |-> 0, body |-> None]
NotCalled == [t |-> "none"]
Pending == [t |-> "pending"]
Raised == [t |-> "raised"]
Returned(content) == [t |-> "returned", content |-> content]

Init ==
    /\ pc = "idle"
    /\ body = EmptyDict
    /\ prompt = <<>>
    /\ apiCalls = 0
    /\ completion = NotCalled
    /\ response = NoResponse

\* A request arrives and the handler runs up to the completion call: it
\* rejects the request with 400, or builds the prompt and issues the call.
AnalyzeCallFirst(b) ==
    /\ pc = "idle"
    /\ body' = b
    /\ apiCalls' = 1
    /\ IF ValidationError(b) # NoError
       THEN /\ response' = [status |-> 400,
                            body |-> [error |-> Str(ValidationError(b))]]
            /\ prompt' = <<>>
            /\ completion' = NotCalled
            /\ pc' = "responded"
       ELSE /\ prompt' = BuildPrompt(b)
            /\ completion' = Pending
            /\ response' = NoResponse
            /\ pc' = "calling"

Analyze(b) ==
    /\ pc = "idle"
    /\ body' = b
    /\ IF ValidationError(b) # NoError
       THEN /\ response' = [status |-> 400,
                            body |-> [error |-> Str(ValidationError(b))]]
            /\ prompt' = <<>>
            /\ apiCalls' = 0
            /\ completion' = NotCalled
            /\ pc' = "responded"
       ELSE /\ prompt' = BuildPrompt(b)
            /\ apiCalls' = 0 + 1
            /\ completion' = Pending
            /\ response' = NoResponse
            /\ pc' = "calling"

\* The completion call returns: the handler extracts, normalizes and answers.
CompletionReturns(content) ==
    /\ pc = "calling"
    /\ completion' = Returned(content)
    /\ response' = [status |-> 200,
                    body |-> Normalize(ExtractJson(Or(content, Text(<<>>)).k))]
    /\ pc' = "responded"
    /\ UNCHANGED <<body, prompt, apiCalls>>

\* The completion call raises: nothing in the handler catches it, and the
\* framework answers with its own 500.
CompletionRaisesRetried ==
    /\ pc = "calling"
    /\ IF apiCalls < 2
       THEN /\ apiCalls' = apiCalls + 1
            /\ UNCHANGED <<pc, completion, response>>
       ELSE /\ completion' = Raised
            /\ response' = [status |-> 500, body |-> None]
            /\ pc' = "responded"
            /\ UNCHANGED apiCalls
    /\ UNCHANGED <<body, prompt>>

CompletionRaisesCaught ==
    /\ pc = "calling"
    /\ completion' = Raised
    /\ response' = [status |-> 500,
                    body |-> [error |-> Str("completion failed")]]
    /\ pc' = "responded"
    /\ UNCHANGED <<body, prompt, apiCalls>>

CompletionRaises ==
    /\ pc = "calling"
    /\ completion' = Raised
    /\ response' = [status |-> 500, body |-> None]
    /\ pc' = "responded"
    /\ UNCHANGED <<body, prompt, apiCalls>>

\* The response is sent and the handler returns: its locals are gone and the
\* worker waits for the next request.
Respond ==
    /\ pc = "responded"
    /\ pc' = "idle"
    /\ body' = EmptyDict
    /\ prompt' = <<>>
    /\ apiCalls' = 0
    /\ completion' = NotCalled
    /\ response' = NoResponse

(* ------------------------------- inputs ------------------------------- *)

Absent == [t |-> "absent"]

\* The dict d, with the key set when the request gives it.
WithField(d, key, o) == IF o.t = "absent" THEN d ELSE Put(d, key, o)

SeqsUpTo(S, n) == UNION {[1..m -> S] : m \in 0..n}

PainPointNames == {Str("Manual processes"), Str("Slow approvals")}

StakeholderRecords ==
    {Obj([name |-> Str("Jane"), role |-> Str("champion")]),
     Obj([name |-> Str("Raj")]),
     Obj([role |-> Str("buyer")]),
     Obj(EmptyDict)}

Headers ==
    {EmptyDict,
     [company |-> Str("Acme Corp"), stage |-> Str("Discovery"),
      history |-> Str("Initial outreach")]}

Contexts ==
    {WithField(WithField(WithField(WithField(WithField(h,
        "last_interaction", li), "lastInteraction", lI),
        "pain_points", pp), "painPoints", pP), "stakeholders", st) :
        h \in Headers,
        li \in {Absent, Str(""), Str("Demo call last week")},
        lI \in {Absent, Str("Email thread")},
        pp \in {Absent} \cup
               {List(q) : q \in SeqsUpTo(PainPointNames, MaxPainPoints)},
        pP \in {Absent, List(<<Str("Legacy tooling")>>)},
        st \in {Absent} \cup
               {List(q) : q \in SeqsUpTo(StakeholderRecords, MaxStakeholders)}}

\* The deal context of the module's own curl example.
SampleContext ==
    [company |-> Str("Acme Corp"), stage |-> Str("Discovery"),
     last_interaction |-> Str("Demo call last week"),
     pain_points |-> List(<<Str("Manual processes")>>),
     stakeholders |->
         List(<<Obj([name |-> Str("Jane"), role |-> Str("champion")])>>),
     history |-> Str("Initial outreach")]

AltContext ==
    [company |-> Str("Beta LLC"), painPoints |-> List(<<Str("Churn")>>)]

SampleBody ==
    [checkpoint_id |-> Str("test-1"), deal_context |-> Obj(SampleContext),
     question |-> Str("What are the top risks?")]

\* Requests that vary the required fields and their aliases.
FlowBodies ==
    {WithField(WithField(WithField(WithField(WithField(EmptyDict,
        "checkpoint_id", cp), "checkpointId", cpAlt),
        "deal_context", dc), "dealContext", dcAlt), "question", q) :
        cp \in {Absent, Str(""), Str("cp-1")},
        cpAlt \in {Absent, Str(""), Str("cp-2")},
        dc \in {Absent, Obj(EmptyDict), Obj(SampleContext)},
        dcAlt \in {Absent, Obj(EmptyDict), Obj(AltContext)},
        q \in {Absent, Str("What are the top risks?")}}

\* Requests that vary the deal context; the question is left to its default.
PromptBodies ==
    {WithField(WithField([checkpoint_id |-> Str("cp-1")],
        "deal_context", dc), "dealContext", dcAlt) :
        dc \in {Absent, Obj(EmptyDict)} \cup {Obj(c) : c \in Contexts},
        dcAlt \in {Absent, Obj(AltContext)}}

ExtractBodies == {SampleBody, EmptyDict, [checkpoint_id |-> Str("test-1")]}

Tokens ==
    {LBrace, RBrace, Comma, Prose,
     Member("next_steps", List(<<Str("Call CFO")>>)),
     Member("nextSteps", List(<<Str("Send deck")>>)),
     Member("confidence", Num(15)),
     Member("confidence", Num(0)),
     Member("confidence", Num(-5))}

\* message.content: None, or a text.
SampleContents ==
    {None,
     Text(<<Prose>>),
     Text(<<Prose, LBrace,
            Member("risks", List(<<Str("Budget cut")>>)), Comma,
            Member("nextSteps", List(<<Str("Call CFO")>>)), Comma,
            Member("confidence", Num(8)), Comma,
            Member("reasoning", Str("Budget risk.")),
            RBrace, Prose>>)}

ExtractContents == {None} \cup {Text(q) : q \in SeqsUpTo(Tokens, MaxTextLen)}

(* --------------------------- specifications --------------------------- *)

Next ==
    \/ pc = "idle" /\ \E b \in FlowBodies : Analyze(b)
    \/ pc = "calling" /\ \E content \in SampleContents : CompletionReturns(content)
    \/ CompletionRaises
    \/ Respond

Spec == Init /\ [][Next]_vars

PromptNext ==
    \/ pc = "idle" /\ \E b \in PromptBodies : Analyze(b)
    \/ pc = "calling" /\ \E content \in SampleContents : CompletionReturns(content)
    \/ CompletionRaises
    \/ Respond

PromptSpec == Init /\ [][PromptNext]_vars

ExtractNext ==
    \/ pc = "idle" /\ \E b \in ExtractBodies : Analyze(b)
    \/ pc = "calling" /\ \E content \in ExtractContents : CompletionReturns(content)
    \/ CompletionRaises
    \/ Respond

ExtractSpec == Init /\ [][ExtractNext]_vars

(* ------------------------------- claims ------------------------------- *)

Handled == pc \in {"calling", "responded"}

Present(d, key) == key \in DOMAIN d

\* The key is absent, or holds the empty string.
AbsentOrEmpty(d, key) == ~Present(d, key) \/ d[key] = Str("")

ErrorResponse(msg) == [status |-> 400, body |-> [error |-> Str(msg)]]

\* C1: a request in which checkpoint_id and checkpointId are both absent or
\* empty is answered 400 {"error": "checkpoint_id is required"}, whatever its
\* other fields are.
C1_MissingCheckpointRejected ==
    (Handled /\ AbsentOrEmpty(body, "checkpoint_id")
             /\ AbsentOrEmpty(body, "checkpointId"))
        => (pc = "responded" /\ response = ErrorResponse(CheckpointRequired))

C1_Witness ==
    /\ pc = "responded"
    /\ AbsentOrEmpty(body, "checkpoint_id")
    /\ AbsentOrEmpty(body, "checkpointId")
    /\ Present(body, "checkpointId")
    /\ ~Present(body, "deal_context") /\ ~Present(body, "dealContext")
    /\ Present(body, "question")
    /\ response = ErrorResponse(CheckpointRequired)

\* C2: a request with a non-empty checkpoint id is answered 400
\* {"error": "deal_context is required"} exactly when neither deal_context nor
\* dealContext is present in the body.
C2_DealContextRejectedIffAbsent ==
    (Handled /\ ~(AbsentOrEmpty(body, "checkpoint_id")
                  /\ AbsentOrEmpty(body, "checkpointId")))
        => ((response = ErrorResponse(DealContextRequired))
              <=> (~Present(body, "deal_context")
                     /\ ~Present(body, "dealContext")))

\* The text the handler scans: message.content, or "" for None.
ReturnedText == IF completion.content.t = "text" THEN completion.content.k ELSE <<>>

Answered == pc = "responded" /\ completion.t = "returned"

\* Some "{" of the text has a "}" after it.
HasBraceSpan(text) ==
    \E i, j \in 1..Len(text) :
        i < j /\ text[i].t = "lbrace" /\ text[j].t = "rbrace"

\* The substring from the first "{" to the last "}".
GreedySpan(text) ==
    LET i == CHOOSE x \in 1..Len(text) :
                 /\ text[x].t = "lbrace"
                 /\ \A y \in 1..(x - 1) : text[y].t # "lbrace"
        j == CHOOSE x \in 1..Len(text) :
                 /\ text[x].t = "rbrace"
                 /\ \A y \in (x + 1)..Len(text) : text[y].t # "rbrace"
    IN  SubSeq(text, i, j)

\* member ("," member)*
RECURSIVE IsMembers(_)
IsMembers(str) ==
    /\ Len(str) >= 1
    /\ str[1].t = "member"
    /\ \/ Len(str) = 1
       \/ /\ Len(str) >= 3
          /\ str[2].t = "comma"
          /\ IsMembers(SubSeq(str, 3, Len(str)))

\* "{" [ member ("," member)* ] "}"
IsJsonObject(str) ==
    /\ Len(str) >= 2
    /\ str[1].t = "lbrace"
    /\ str[Len(str)].t = "rbrace"
    /\ \/ Len(str) = 2
       \/ IsMembers(SubSeq(str, 2, Len(str) - 1))

Unparseable(text) == ~HasBraceSpan(text) \/ ~IsJsonObject(GreedySpan(text))

DefaultResponse ==
    [status |-> 200,
     body |-> [risks |-> List(<<>>), next_steps |-> List(<<>>),
               confidence |-> Num(5),
               reasoning |-> Str("Unable to parse response")]]

\* C3: when the returned text has no span from a first "{" to a last "}", or
\* that greedy span is not valid JSON, the answer is 200 with exactly the
\* default body; a parse failure is never an error response.
C3_ParseFailureGivesDefaults ==
    (Answered /\ Unparseable(ReturnedText)) => response = DefaultResponse

C3_Witness ==
    /\ Answered
    /\ HasBraceSpan(ReturnedText)
    /\ ~IsJsonObject(GreedySpan(ReturnedText))
    /\ \E i \in 1..Len(ReturnedText) : ReturnedText[i].t = "member"
    /\ response = DefaultResponse

\* The object the model's output holds, when its greedy span is valid JSON.
ModelObject == ObjectOf(GreedySpan(ReturnedText))

SuppliesBoth ==
    /\ Answered
    /\ ~Unparseable(ReturnedText)
    /\ Present(ModelObject, "next_steps")
    /\ Present(ModelObject, "nextSteps")
    /\ ModelObject["next_steps"] # ModelObject["nextSteps"]

\* C4 (as claimed): when the model output supplies next_steps and nextSteps
\* with different values, the response's next_steps is the value of the
\* model's next_steps key.
C4_SnakeCaseWins ==
    SuppliesBoth => response.body.next_steps = ModelObject["next_steps"]

\* C4 (amended): when the model output supplies next_steps and nextSteps with
\* different values, the response's next_steps is the value of the model's
\* nextSteps key.
C4_CamelCaseWins ==
    SuppliesBoth => response.body.next_steps = ModelObject["nextSteps"]

C4_Witness ==
    /\ SuppliesBoth
    /\ response.status = 200
    /\ response.body.next_steps = ModelObject["nextSteps"]

\* The value the claim says is used: the snake_case one when that key is
\* present, else the camelCase one, else the default.
SnakeFirst(d, snake, camel, default) ==
    IF Present(d, snake) THEN d[snake] ELSE GetD(d, camel, default)

IsBullet(line) == Len(line) > 0 /\ line[1] = "- "

\* C5: for deal_context/dealContext, last_interaction/lastInteraction and
\* pain_points/painPoints the prompt is built from the snake_case value
\* whenever that key is present, whatever it holds; from the camelCase value
\* only when the snake_case key is absent; from the default only when both are.
C5_SnakeCasePrecedence ==
    pc = "calling" =>
        LET ctx == SnakeFirst(body, "deal_context", "dealContext",
                              Obj(EmptyDict)).d
            li == SnakeFirst(ctx, "last_interaction", "lastInteraction",
                             Str("N/A"))
            pains == SnakeFirst(ctx, "pain_points", "painPoints",
                                List(<<>>)).q
        IN  /\ prompt[1] = <<"## Deal: ",
                             GetD(ctx, "company", Str("Unknown")).s>>
            /\ prompt[3] = <<"Last Interaction: ", li.s>>
            /\ \A i \in 1..Len(pains) : prompt[5 + i] = <<"- ", pains[i].s>>
            /\ ~IsBullet(prompt[5 + Len(pains) + 1])

C7_FailurePropagates ==
    /\ [](pc = "responded" /\ completion.t = "raised"
            => response = [status |-> 500, body |-> None] /\ apiCalls = 1)
    /\ [][pc = "responded" /\ completion.t = "raised"
            => pc' = "idle" /\ body' = EmptyDict /\ prompt' = <<>>
               /\ apiCalls' = 0 /\ completion' = NotCalled
               /\ response' = NoResponse]_vars
    /\ [](pc = "idle" => ENABLED Analyze(SampleBody))

C7_Witness ==
    /\ pc = "responded"
    /\ completion.t = "raised"
    /\ response.status = 500
    /\ apiCalls = 1

\* C8: when the parsed model output has a confidence key, the response's
\* confidence is that value unchanged, below 0 and above 1 included; it is
\* the default 0.5 only when the key is absent.
C8_ConfidencePassThrough ==
    Answered =>
        LET parsed == IF Unparseable(ReturnedText) THEN EmptyDict
                                                   ELSE ModelObject
        IN  IF Present(parsed, "confidence")
            THEN response.body.confidence = parsed["confidence"]
            ELSE response.body.confidence = Num(5)

C8_Witness ==
    /\ Answered
    /\ ~Unparseable(ReturnedText)
    /\ Present(ModelObject, "confidence")
    /\ ModelObject["confidence"].n > 10
    /\ response.body.confidence = ModelObject["confidence"]

\* What the claim expects of one stakeholder: "?" for a missing name or role.
ExpectedStakeholderLine(st) ==
    <<"- ", IF Present(st.d, "name") THEN st.d.name.s ELSE "?", " (",
      IF Present(st.d, "role") THEN st.d.role.s ELSE "?", ")">>

\* C9: the bullet lines of the prompt are one "- <point>" line per pain point
\* the handler extracts, in input order, followed by one "- <name> (<role>)"
\* line per stakeholder, in input order, "?" standing for a missing name or
\* role; an empty sequence gives no bullet line.  The pain-point lines stand
\* under "Pain Points:" and the stakeholder lines under "Stakeholders:".
C9_BulletLinesInOrder ==
    pc = "calling" =>
        LET ctx == DealContext(body).d
            pains == PainPoints(ctx).q
            stakes == Stakeholders(ctx).q
            painRows == IF Len(pains) = 0 THEN 1 ELSE Len(pains)
        IN  /\ SelectSeq(prompt, IsBullet)
                 = [i \in 1..Len(pains) |-> <<"- ", pains[i].s>>]
                   \o [i \in 1..Len(stakes) |->
                          ExpectedStakeholderLine(stakes[i])]
            /\ prompt[5] = <<"Pain Points:">>
            /\ \A i \in 1..Len(pains) : prompt[5 + i] = <<"- ", pains[i].s>>
            /\ prompt[5 + painRows + 2] = <<"Stakeholders:">>
            /\ \A i \in 1..Len(stakes) :
                  prompt[5 + painRows + 2 + i]
                      = ExpectedStakeholderLine(stakes[i])

C9_Witness ==
    /\ pc = "calling"
    /\ Len(PainPoints(DealContext(body).d).q) = 2
    /\ PainPoints(DealContext(body).d).q[1] = Str("Slow approvals")
    /\ PainPoints(DealContext(body).d).q[2] = Str("Manual processes")
    /\ Len(Stakeholders(DealContext(body).d).q) = 2
    /\ ~Present(Stakeholders(DealContext(body).d).q[1].d, "name")
    /\ ~Present(Stakeholders(DealContext(body).d).q[2].d, "role")
    /\ Len(SelectSeq(prompt, IsBullet)) = 4

\* The request passes both required-field checks.
PassesChecks(b) ==
    /\ Truthy(Get(b, "checkpoint_id")) \/ Truthy(Get(b, "checkpointId"))
    /\ Truthy(Get(b, "deal_context")) \/ Truthy(Get(b, "dealContext"))

\* C10: a request answered 400 causes no completion call, and a completion
\* call is issued only for a request that passed both required-field checks.
C10_ValidationBeforeCall ==
    /\ response.status = 400 => apiCalls = 0 /\ completion = NotCalled
    /\ (apiCalls > 0 \/ completion # NotCalled) => PassesChecks(body)

C10_Witness ==
    /\ pc = "responded"
    /\ response = ErrorResponse(DealContextRequired)
    /\ apiCalls = 0
    /\ completion = NotCalled

====
